---- MODULE Spec2Model ----
(***************************************************************************)
(* uptomssql: bulk load of the JSON / CSV files of a directory into the    *)
(* tables of a SQL Server database.  The model follows func main: one      *)
(* action per step of the sequential loop over files and rows.             *)
(***************************************************************************)
EXTENDS Integers, Sequences, FiniteSets, TLC

VARIABLES
    pc,               \* position of main
    exitCode,         \* process exit status, -1 while the process runs
    failure,          \* what ended the run ("none" while it runs)
    printed,          \* the fixed lines written to stdout so far
    fatalMsg,         \* the message of log.Fatalf, "" if none
    files,            \* os.ReadDir result: the entry names, sorted by name
    fileIdx,          \* position of the range loop over files (1-based)
    tableName,        \* loop-scoped: table resolved from the file name
    ext,              \* loop-scoped: Json or Csv
    schema,           \* loop-scoped: map column name -> ColumnSchema
    isTableIdentity,  \* loop-scoped
    computeColumns,   \* loop-scoped: names in sys.computed_columns
    allRecords,       \* loop-scoped: the rows of the file, in file order
    rowIdx,           \* position of the range loop over allRecords (1-based)
    row,              \* index of the row projected last in this file, 0 if none
    columns,          \* row-scoped: bracketed column names
    values,           \* row-scoped: bound parameter values
    query,            \* row-scoped: statement text handed to db.Exec
    execLog,          \* db.Exec calls made so far, with their result
    rowsRead          \* len(allRecords) of every file read so far

vars == <<pc, exitCode, failure, printed, fatalMsg, files, fileIdx, tableName,
          ext, schema, isTableIdentity, computeColumns, allRecords, rowIdx,
          row, columns, values, query, execLog, rowsRead>>

\* ---------------------------------------------------------------- bounds
MaxFiles == 2
MaxRows == 2
MaxStem == 3

\* ------------------------------------------------------- program constants
Json == 0
Csv == 1

SuccessCode == 0
ConnectErrorCode == 1
TableInfoErrorCode == 2
InsertDataErrorCode == 3
UnmarshalErrorCode == 4
ReadDirErrorCode == 5
ReadFileErrorCode == 6
OpenFileErrorCode == 7

\* Exit status of the Go runtime for an unrecovered panic, and of log.Fatalf.
PanicExitCode == 2
FatalExitCode == 1

\* ------------------------------------------------------------ the strings
\* Position of the first occurrence of sep in s at or after from, 0 if none.
RECURSIVE Index(_, _, _)
Index(s, sep, from) ==
    IF from + Len(sep) - 1 > Len(s) THEN 0
    ELSE IF SubSeq(s, from, from + Len(sep) - 1) = sep THEN from
    ELSE Index(s, sep, from + 1)

\* strings.Split(s, sep) for a non-empty sep.
RECURSIVE Split(_, _)
Split(s, sep) ==
    LET i == Index(s, sep, 1) IN
    IF i = 0 THEN <<s>>
    ELSE <<SubSeq(s, 1, i - 1)>> \o Split(SubSeq(s, i + Len(sep), Len(s)), sep)

\* strings.SplitN(s, sep, 2): cut at the first sep only.
SplitN2(s, sep) ==
    LET i == Index(s, sep, 1) IN
    IF i = 0 THEN <<s>>
    ELSE <<SubSeq(s, 1, i - 1), SubSeq(s, i + Len(sep), Len(s))>>

\* strings.Join(parts, sep).
RECURSIVE Join(_, _)
Join(parts, sep) ==
    IF Len(parts) = 0 THEN ""
    ELSE IF Len(parts) = 1 THEN parts[1]
    ELSE parts[1] \o sep \o Join(Tail(parts), sep)

\* ------------------------------------------------------ file name -> table
\* getFileFormat: [panic |-> TRUE] stands for panic("incorrect format").
getFileFormat(strFormat) ==
    IF strFormat = "json" THEN [panic |-> FALSE, format |-> Json]
    ELSE IF strFormat = "csv" THEN [panic |-> FALSE, format |-> Csv]
    ELSE [panic |-> TRUE, format |-> Json]

\* Cutting at every underscore instead of the first one only.
SplitNameEvery(fn) == Split(fn, "_")

\* strings.SplitN(fn, "_", 2): the cut of the file name at its first underscore.
SplitName(fn) == SplitN2(fn, "_")

\* The closure of main that maps a file name to (tableName, ext).  An index
\* out of range (no underscore, no dot) panics like an unknown format does.
ResolveName(fn) ==
    LET parts == SplitName(fn) IN
    IF Len(parts) < 2 THEN [panic |-> TRUE, table |-> "", format |-> Json]
    ELSE
      LET nameAndExt == Split(parts[2], ".") IN
      IF Len(nameAndExt) > 2 THEN
        LET li == Len(nameAndExt)
            f  == getFileFormat(nameAndExt[li]) IN
        [panic |-> f.panic,
         table |-> IF f.panic THEN "" ELSE Join(SubSeq(nameAndExt, 1, li - 1), ""),
         format |-> f.format]
      ELSE IF Len(nameAndExt) < 2 THEN [panic |-> TRUE, table |-> "", format |-> Json]
      ELSE
        LET f == getFileFormat(nameAndExt[2]) IN
        [panic |-> f.panic,
         table |-> IF f.panic THEN "" ELSE nameAndExt[1],
         format |-> f.format]

\* ------------------------------------------------------------- the values
\* A value of type any held by a row: an int (CSV cell that strconv.Atoi
\* accepts), a float64 (JSON number) or a string.
IntVal(n) == [kind |-> "int", n |-> n, s |-> ""]
FloatVal(n) == [kind |-> "float64", n |-> n, s |-> ""]
StrVal(s) == [kind |-> "string", n |-> 0, s |-> s]

Digits == <<"0", "1", "2", "3", "4", "5", "6", "7", "8", "9">>

IsDigit(c) == \E d \in 1..10 : Digits[d] = c

DigitOf(c) == (CHOOSE d \in 1..10 : Digits[d] = c) - 1

RECURSIVE ParseDigits(_, _)
ParseDigits(s, acc) ==
    IF Len(s) = 0 THEN acc
    ELSE ParseDigits(SubSeq(s, 2, Len(s)), 10 * acc + DigitOf(SubSeq(s, 1, 1)))

\* strconv.Atoi: an optional sign followed by at least one decimal digit.
Atoi(s) ==
    LET signed == Len(s) > 0 /\ SubSeq(s, 1, 1) \in {"+", "-"}
        body   == IF signed THEN SubSeq(s, 2, Len(s)) ELSE s
        ok     == Len(body) > 0 /\ \A i \in 1..Len(body) : IsDigit(SubSeq(body, i, i))
    IN  IF ~ok THEN [err |-> TRUE, num |-> 0]
        ELSE [err |-> FALSE,
              num |-> IF signed /\ SubSeq(s, 1, 1) = "-"
                      THEN 0 - ParseDigits(body, 0) ELSE ParseDigits(body, 0)]

\* The cell -> value conversion of the CSV loop.
CellValue(cell) ==
    LET a == Atoi(cell) IN IF a.err THEN StrVal(cell) ELSE IntVal(a.num)

\* One CSV record as a row keyed by header; a repeated header keeps the last cell.
CsvRow(headers, record) ==
    [h \in {headers[i] : i \in 1..Len(headers)} |->
        CellValue(record[CHOOSE i \in 1..Len(headers) :
            /\ headers[i] = h
            /\ \A j \in 1..Len(headers) : headers[j] = h => j <= i])]

\* ------------------------------------------------------- the input domains
Cols == {"id", "ts"}

ColumnSchemas(c) ==
    [ColumnName : {c}, IsNullable : {"YES", "NO"}, ColumnDefaultValid : BOOLEAN,
     DataType : {"int", "timestamp"}]

\* INFORMATION_SCHEMA.COLUMNS of a table: any subset of Cols, any metadata.
Schemas ==
    UNION {{f \in [D -> UNION {ColumnSchemas(c) : c \in D}] :
                \A c \in D : f[c].ColumnName = c} : D \in SUBSET Cols}

Cells == {"7", "NULL"}

JsonValues == {FloatVal(7), StrVal("NULL")}

JsonObjects == UNION {[D -> JsonValues] : D \in SUBSET Cols}

SeqsUpTo(S, n) == UNION {[1..k -> S] : k \in 0..n}

Injective(f) == \A i, j \in DOMAIN f : f[i] = f[j] => i = j

\* Header lines: distinct column names, at least one.
HeaderSeqs == {h \in SeqsUpTo(Cols, Cardinality(Cols)) : Len(h) > 0 /\ Injective(h)}

\* The orders in which a range over a map with key set S may visit it.
Orders(S) == {o \in [1..Cardinality(S) -> S] : Injective(o)}

\* The names a directory may hold, in the byte order os.ReadDir sorts by.
DirNames == <<"1_t.csv", "1_t.json", "1_t.txt">>

\* os.ReadDir: at most MaxFiles of the names, sorted.
Listings ==
    {[i \in 1..Len(ix) |-> DirNames[ix[i]]] :
        ix \in {s \in SeqsUpTo(1..Len(DirNames), MaxFiles) :
                    \A i \in 1..(Len(s) - 1) : s[i] < s[i + 1]}}

\* ------------------------------------------------------ the field projector
\* Not a real row: the value of the loop-scoped variables outside their scope.
NoSchema == [c \in {} |-> 0]

\* The computed columns forgotten.
SkippedOnlyTimestamp(sch, computed, col) == sch[col].DataType = "timestamp"

\* colSchema.DataType == "timestamp" || slices.Contains(computeColumns, col)

Skipped(sch, computed, col) ==
    sch[col].DataType = "timestamp" \/ col \in computed

\* The negation of ColumnDefault.Valid lost.
RequiredWhenDefault(sch, col) ==
    sch[col].IsNullable # "YES" /\ sch[col].ColumnDefaultValid

\* colSchema.IsNullable != "YES" && !colSchema.ColumnDefault.Valid

Required(sch, col) ==
    sch[col].IsNullable # "YES" /\ ~sch[col].ColumnDefaultValid

\* The marker honoured in JSON rows too.
IsNullMarkerAnyFormat(format, val) == val = StrVal("NULL")

\* ext == Csv && val == "NULL"

IsNullMarker(format, val) == format = Csv /\ val = StrVal("NULL")

\* col = "[" + col + "]"
Bracketed(col) == "[" \o col \o "]"

\* One pass of the loop over the schema, visiting the columns in `order`.
\* acc carries columns and values; a log.Fatalf ends the pass at once.
RECURSIVE ProjectFrom(_, _, _, _, _, _, _)
ProjectFrom(order, i, rec, sch, computed, format, acc) ==
    IF i > Len(order) THEN acc
    ELSE
      LET col == order[i] IN
      IF col \in DOMAIN rec THEN
        IF Skipped(sch, computed, col)
        THEN ProjectFrom(order, i + 1, rec, sch, computed, format, acc)
        ELSE IF IsNullMarker(format, rec[col]) THEN
          IF Required(sch, col)
          THEN [acc EXCEPT !.fatal = "required field " \o col \o " missing from csv",
                           !.fatalCol = col]
          ELSE ProjectFrom(order, i + 1, rec, sch, computed, format, acc)
        ELSE ProjectFrom(order, i + 1, rec, sch, computed, format,
                 [acc EXCEPT !.columns = Append(@, Bracketed(col)),
                             !.values = Append(@, rec[col])])
      ELSE
        IF Required(sch, col)
        THEN [acc EXCEPT !.fatal = "required field " \o col \o " missing from json",
                         !.fatalCol = col]
        ELSE ProjectFrom(order, i + 1, rec, sch, computed, format, acc)

Project(order, rec, sch, computed, format) ==
    ProjectFrom(order, 1, rec, sch, computed, format,
                [fatal |-> "", fatalCol |-> "", columns |-> <<>>, values |-> <<>>])

\* ------------------------------------------------------ the statement builder
\* The placeholder numbered by the 0-based index itself.
PlaceholderZeroBased(i) == "@p" \o ToString(i)

\* fmt.Sprintf("@p%d", i+1) for the 0-based loop index i.

Placeholder(i) == "@p" \o ToString(i + 1)

Placeholders(n) == Join([k \in 1..n |-> Placeholder(k - 1)], ", ")

InsertText(table, cols) ==
    "INSERT INTO " \o table \o " (" \o Join(cols, ", ") \o ") VALUES ("
        \o Placeholders(Len(cols)) \o ");"

IdentityOn(table) == "SET IDENTITY_INSERT " \o table \o " ON;"

IdentityOff(table) == "SET IDENTITY_INSERT " \o table \o " OFF;"

\* The toggles written whatever isTableIdentity says.
BuildQueryAlwaysWrapped(table, cols, identity) ==
    IdentityOn(table) \o InsertText(table, cols) \o IdentityOff(table)

\* The INSERT text, between the two toggles if the table has an identity column.
BuildQuery(table, cols, identity) ==
    IF identity
    THEN IdentityOn(table) \o InsertText(table, cols) \o IdentityOff(table)
    ELSE InsertText(table, cols)

\* ------------------------------------------------------------ the process
records == allRecords[row]

\* Nothing printed, nothing executed, every loop variable outside its scope.
Fresh ==
    /\ exitCode = -1
    /\ failure = "none"
    /\ printed = {}
    /\ fatalMsg = ""
    /\ fileIdx = 1
    /\ tableName = ""
    /\ ext = Json
    /\ schema = NoSchema
    /\ isTableIdentity = FALSE
    /\ computeColumns = {}
    /\ allRecords = <<>>
    /\ rowIdx = 1
    /\ row = 0
    /\ columns = <<>>
    /\ values = <<>>
    /\ query = ""
    /\ execLog = <<>>
    /\ rowsRead = <<>>

Init ==
    /\ pc = "open"
    /\ files = <<>>
    /\ Fresh

\* handleError(err, errorCode) with err != nil: print and os.Exit(errorCode).
handleError(errorCode, what) ==
    /\ pc' = "exit"
    /\ exitCode' = errorCode
    /\ failure' = what

\* An unrecovered panic: the Go runtime ends the process with status 2.
Panic(what) ==
    /\ pc' = "exit"
    /\ exitCode' = PanicExitCode
    /\ failure' = what

Running(next) ==
    /\ pc' = next
    /\ UNCHANGED <<exitCode, failure>>

\* sqlx.Open and handleError(err, ConnectErrorCode)
OpenDb ==
    /\ pc = "open"
    /\ \/ Running("readdir")
       \/ handleError(ConnectErrorCode, "connect")
    /\ UNCHANGED <<printed, fatalMsg, files, fileIdx, tableName, ext, schema,
                   isTableIdentity, computeColumns, allRecords, rowIdx, row,
                   columns, values, query, execLog, rowsRead>>

\* os.ReadDir and handleError(err, ReadDirErrorCode)
ReadDir ==
    /\ pc = "readdir"
    /\ \/ /\ Running("file")
          /\ files' \in Listings
       \/ /\ handleError(ReadDirErrorCode, "readdir")
          /\ UNCHANGED files
    /\ UNCHANGED <<printed, fatalMsg, fileIdx, tableName, ext, schema,
                   isTableIdentity, computeColumns, allRecords, rowIdx, row,
                   columns, values, query, execLog, rowsRead>>

\* Head of the loop over files: the closure resolves tableName and ext.
ResolveFile ==
    /\ pc = "file"
    /\ fileIdx <= Len(files)
    /\ LET r == ResolveName(files[fileIdx]) IN
       IF r.panic
       THEN /\ Panic("filename")
            /\ UNCHANGED <<tableName, ext>>
       ELSE /\ Running("schema")
            /\ tableName' = r.table
            /\ ext' = r.format
    /\ UNCHANGED <<printed, fatalMsg, files, fileIdx, schema, isTableIdentity,
                   computeColumns, allRecords, rowIdx, row, columns, values,
                   query, execLog, rowsRead>>

\* getTableSchema and handleError(err, TableInfoErrorCode)
GetTableSchema ==
    /\ pc = "schema"
    /\ \/ /\ Running("identity")
          /\ schema' \in Schemas
       \/ /\ handleError(TableInfoErrorCode, "tableinfo")
          /\ UNCHANGED schema
    /\ UNCHANGED <<printed, fatalMsg, files, fileIdx, tableName, ext,
                   isTableIdentity, computeColumns, allRecords, rowIdx, row,
                   columns, values, query, execLog, rowsRead>>

\* isTableHasIdentity and handleError(err, TableInfoErrorCode)
IsTableHasIdentity ==
    /\ pc = "identity"
    /\ \/ /\ Running("computed")
          /\ isTableIdentity' \in BOOLEAN
       \/ /\ handleError(TableInfoErrorCode, "tableinfo")
          /\ UNCHANGED isTableIdentity
    /\ UNCHANGED <<printed, fatalMsg, files, fileIdx, tableName, ext, schema,
                   computeColumns, allRecords, rowIdx, row, columns, values,
                   query, execLog, rowsRead>>

\* getComputeColumns and handleError(err, TableInfoErrorCode)
GetComputeColumns ==
    /\ pc = "computed"
    /\ \/ /\ Running("read")
          /\ computeColumns' \in SUBSET Cols
       \/ /\ handleError(TableInfoErrorCode, "tableinfo")
          /\ UNCHANGED computeColumns
    /\ UNCHANGED <<printed, fatalMsg, files, fileIdx, tableName, ext, schema,
                   isTableIdentity, allRecords, rowIdx, row, columns, values,
                   query, execLog, rowsRead>>

\* All rows of the file are in allRecords: the loop over them starts.
RecordsRead(recs) ==
    /\ Running("rows")
    /\ allRecords' = recs
    /\ rowsRead' = Append(rowsRead, Len(recs))

\* case Json: os.ReadFile, then try(json.Unmarshal(data, &allRecords)).  The
\* handleError(err, UnmarshalErrorCode) that follows tests the err of
\* os.ReadFile, which is nil there: a decoding error has already panicked.
ReadJson ==
    /\ pc = "read"
    /\ ext = Json
    /\ \/ \E recs \in SeqsUpTo(JsonObjects, MaxRows) : RecordsRead(recs)
       \/ /\ handleError(ReadFileErrorCode, "readfile")
          /\ UNCHANGED <<allRecords, rowsRead>>
       \/ /\ Panic("parse")
          /\ UNCHANGED <<allRecords, rowsRead>>
    /\ UNCHANGED <<printed, fatalMsg, files, fileIdx, tableName, ext, schema,
                   isTableIdentity, computeColumns, rowIdx, row, columns,
                   values, query, execLog>>

\* case Csv: os.Open, the header line, then every record until io.EOF.  A
\* failed header read (an empty file included) goes through handleError, a
\* failed record read panics.
ReadCsv ==
    /\ pc = "read"
    /\ ext = Csv
    /\ \/ \E headers \in HeaderSeqs :
            \E recs \in SeqsUpTo([1..Len(headers) -> Cells], MaxRows) :
              RecordsRead([i \in 1..Len(recs) |-> CsvRow(headers, recs[i])])
       \/ /\ handleError(OpenFileErrorCode, "openfile")
          /\ UNCHANGED <<allRecords, rowsRead>>
       \/ /\ handleError(UnmarshalErrorCode, "parse")
          /\ UNCHANGED <<allRecords, rowsRead>>
       \/ /\ Panic("parse")
          /\ UNCHANGED <<allRecords, rowsRead>>
    /\ UNCHANGED <<printed, fatalMsg, files, fileIdx, tableName, ext, schema,
                   isTableIdentity, computeColumns, rowIdx, row, columns,
                   values, query, execLog>>

\* db.Exec whose error is dropped: the loop goes on after a failed INSERT.
ExecErrorDropped ==
    /\ \E ok \in BOOLEAN :
         execLog' = Append(execLog, [file |-> fileIdx, row |-> rowIdx, ok |-> ok])
    /\ rowIdx' = rowIdx + 1
    /\ Running("rows")

\* db.Exec(query, values...) and handleError(err, InsertDataErrorCode)
Exec ==
    \/ /\ execLog' = Append(execLog, [file |-> fileIdx, row |-> rowIdx, ok |-> TRUE])
       /\ rowIdx' = rowIdx + 1
       /\ Running("rows")
    \/ /\ execLog' = Append(execLog, [file |-> fileIdx, row |-> rowIdx, ok |-> FALSE])
       /\ UNCHANGED rowIdx
       /\ handleError(InsertDataErrorCode, "insert")

\* `continue` in place of `return`: the empty row is skipped, the loop goes on.
ContinueNoData ==
    /\ printed' = printed \cup {"No data to insert."}
    /\ Running("rows")
    /\ rowIdx' = rowIdx + 1
    /\ query' = ""
    /\ UNCHANGED execLog

\* The `return` of main on an empty column list: the deferred db.Close runs
\* and the process ends with status 0.
ReturnNoData ==
    /\ printed' = printed \cup {"No data to insert."}
    /\ pc' = "exit"
    /\ exitCode' = SuccessCode
    /\ failure' = "nodata"
    /\ query' = ""
    /\ UNCHANGED <<execLog, rowIdx>>

\* One pass of the loop over allRecords: projection over the schema in the
\* order the map range happens to take, then statement building and db.Exec.
ProcessRow ==
    /\ pc = "rows"
    /\ rowIdx <= Len(allRecords)
    /\ row' = rowIdx
    /\ \E order \in Orders(DOMAIN schema) :
         LET p == Project(order, allRecords[rowIdx], schema, computeColumns, ext) IN
         /\ columns' = p.columns
         /\ values' = p.values
         /\ IF p.fatal # ""
            THEN /\ fatalMsg' = p.fatal
                 /\ pc' = "exit"
                 /\ exitCode' = FatalExitCode
                 /\ failure' = "validation"
                 /\ query' = ""
                 /\ UNCHANGED <<printed, execLog, rowIdx>>
            ELSE /\ UNCHANGED fatalMsg
                 /\ IF Len(p.columns) = 0
                    THEN ReturnNoData
                    ELSE /\ query' = BuildQuery(tableName, p.columns, isTableIdentity)
                         /\ Exec
                         /\ UNCHANGED printed
    /\ UNCHANGED <<files, fileIdx, tableName, ext, schema, isTableIdentity,
                   computeColumns, allRecords, rowsRead>>

\* End of the loop over allRecords: the next file, with fresh loop variables.
NextFile ==
    /\ pc = "rows"
    /\ rowIdx > Len(allRecords)
    /\ Running("file")
    /\ fileIdx' = fileIdx + 1
    /\ tableName' = ""
    /\ ext' = Json
    /\ schema' = NoSchema
    /\ isTableIdentity' = FALSE
    /\ computeColumns' = {}
    /\ allRecords' = <<>>
    /\ rowIdx' = 1
    /\ row' = 0
    /\ columns' = <<>>
    /\ values' = <<>>
    /\ query' = ""
    /\ UNCHANGED <<printed, fatalMsg, files, execLog, rowsRead>>

\* After the loop over files: "Upload done" and os.Exit(SuccessCode).
UploadDone ==
    /\ pc = "file"
    /\ fileIdx > Len(files)
    /\ printed' = printed \cup {"Upload done"}
    /\ pc' = "exit"
    /\ exitCode' = SuccessCode
    /\ failure' = "success"
    /\ UNCHANGED <<fatalMsg, files, fileIdx, tableName, ext, schema,
                   isTableIdentity, computeColumns, allRecords, rowIdx, row,
                   columns, values, query, execLog, rowsRead>>

Next ==
    \/ OpenDb
    \/ ReadDir
    \/ ResolveFile
    \/ GetTableSchema
    \/ IsTableHasIdentity
    \/ GetComputeColumns
    \/ ReadJson
    \/ ReadCsv
    \/ ProcessRow
    \/ NextFile
    \/ UploadDone

Spec == Init /\ [][Next]_vars

\* ------------------------------------------------- file name resolution alone
Alphabet == {"a", "_", "."}

RECURSIVE Stems(_)
Stems(n) ==
    IF n = 0 THEN {""}
    ELSE LET shorter == Stems(n - 1) IN
         shorter \cup {s \o c : s \in shorter, c \in Alphabet}

\* Directory entries of every shape: with and without underscore, with no dot,
\* one dot and several, with a known and an unknown format.
NameInputs ==
    {"001_customer_orders.json", "001_customer.orders.json", "001_orders.csv"}
      \cup {"1" \o s \o e : s \in Stems(MaxStem), e \in {".json", ".csv", ".txt", ""}}

\* main at the head of its loop over a directory of one entry.
NameInit ==
    /\ pc = "file"
    /\ \E fn \in NameInputs : files = <<fn>>
    /\ Fresh

NameNext == ResolveFile

NameSpec == NameInit /\ [][NameNext]_vars

\* ================================================================ the claims
\* Vocabulary of the properties, written against the text of the statement
\* and the metadata, not against the operators of the projector.
\* Number of (possibly overlapping) occurrences of pat in s.
RECURSIVE CountFrom(_, _, _)
CountFrom(s, pat, from) ==
    LET i == Index(s, pat, from) IN
    IF i = 0 THEN 0 ELSE 1 + CountFrom(s, pat, i + 1)

Count(s, pat) == CountFrom(s, pat, 1)

HasPrefix(s, p) == Len(s) >= Len(p) /\ SubSeq(s, 1, Len(p)) = p

HasSuffix(s, p) == Len(s) >= Len(p) /\ SubSeq(s, Len(s) - Len(p) + 1, Len(s)) = p

RowProjected == row > 0

Quoted(c) == "[" \o c \o "]"

Listed(c) == \E i \in 1..Len(columns) : columns[i] = Quoted(c)

IsGenerated(c) ==
    c \in computeColumns \/ (c \in DOMAIN schema /\ schema[c].DataType = "timestamp")

IsRequired(c) == schema[c].IsNullable = "NO" /\ ~schema[c].ColumnDefaultValid

Absent(c) == c \notin DOMAIN records

CsvNull(c) == ext = Csv /\ c \in DOMAIN records /\ records[c] = StrVal("NULL")

FatalFor(c) ==
    fatalMsg \in {"required field " \o c \o " missing from csv",
                  "required field " \o c \o " missing from json"}

ExecOfRow(f, r) == {i \in 1..Len(execLog) : execLog[i].file = f /\ execLog[i].row = r}

\* The row projected last went to db.Exec and the INSERT was applied.
RowInserted ==
    /\ RowProjected
    /\ \E i \in ExecOfRow(fileIdx, row) : execLog[i].ok

\* The row projected last went to statement building.
StatementBuilt == RowProjected /\ query # ""

\* C1: no computed column and no timestamp-typed column is ever in the column
\* list or in the text of the INSERT, whether the record holds it or not.
C1_GeneratedNeverListed ==
    RowProjected =>
        \A c \in Cols : IsGenerated(c) => ~Listed(c) /\ Count(query, Quoted(c)) = 0

C1_Witness ==
    /\ RowInserted
    /\ \E c \in DOMAIN schema : c \in computeColumns /\ c \in DOMAIN records
    /\ \E c \in DOMAIN schema : ~IsGenerated(c) /\ Listed(c)

\* C2 as stated: for every non-nullable column without default, a record with
\* no entry for it, or a CSV record with the entry "NULL", fails with the
\* required-field error and no INSERT is executed for the row.
C2_RequiredAlwaysFatal ==
    RowProjected =>
        \A c \in DOMAIN schema :
            (IsRequired(c) /\ (Absent(c) \/ CsvNull(c)))
                => (failure = "validation" /\ fatalMsg # ""
                    /\ ExecOfRow(fileIdx, row) = {})

\* C2 as amended: the same for every non-nullable column without default that
\* is neither computed nor timestamp-typed.
C2_RequiredFatalUnlessGenerated ==
    RowProjected =>
        \A c \in DOMAIN schema :
            (IsRequired(c) /\ ~IsGenerated(c) /\ (Absent(c) \/ CsvNull(c)))
                => (failure = "validation" /\ fatalMsg # ""
                    /\ exitCode # -1 /\ pc = "exit"
                    /\ ExecOfRow(fileIdx, row) = {})

C2_Witness ==
    /\ RowProjected
    /\ failure = "validation"
    /\ \E c \in DOMAIN schema :
          IsRequired(c) /\ ~IsGenerated(c) /\ CsvNull(c) /\ FatalFor(c)

\* C3: for a column that is nullable or has a default, an absent entry or a
\* CSV entry "NULL" leaves the column out of the column list and the value
\* list and raises no error for it; "NULL" is this marker in CSV only, a JSON
\* entry "NULL" goes the way of any other value: once the row is projected
\* it is listed with the string "NULL" as its value (a computed or timestamp
\* column is listed for no value).
C3_OptionalOmittedSilently ==
    RowProjected =>
        \A c \in DOMAIN schema :
            ~IsRequired(c) =>
                /\ ~FatalFor(c)
                /\ (Absent(c) \/ CsvNull(c)) =>
                      /\ ~Listed(c)
                      /\ Len(values) = Len(columns)
                /\ (ext = Json /\ ~Absent(c) /\ records[c] = StrVal("NULL")
                        /\ failure # "validation") =>
                      /\ Listed(c) <=> ~IsGenerated(c)
                      /\ \A i \in 1..Len(columns) :
                            columns[i] = Quoted(c) => values[i] = StrVal("NULL")

C3_Witness ==
    /\ RowInserted
    /\ \E c \in DOMAIN schema : ~IsRequired(c) /\ ~IsGenerated(c) /\ CsvNull(c)

\* The placeholder list @p1, ..., @pn.
NumberedPlaceholders(n) == Join([k \in 1..n |-> "@p" \o ToString(k)], ", ")

\* C4: for a row that reaches statement building, the column list, the value
\* list and the placeholder list have one length n >= 1, the placeholders are
\* @p1..@pn in that order, every schema column is listed at most once and in
\* brackets, and the i-th value is the record's value of the i-th column.
C4_ListsAligned ==
    StatementBuilt =>
        /\ Len(columns) >= 1
        /\ Len(values) = Len(columns)
        /\ Count(query, "(" \o Join(columns, ", ") \o ") VALUES ("
                          \o NumberedPlaceholders(Len(columns)) \o ");") = 1
        /\ Count(query, "@p") = Len(columns)
        /\ \A i \in 1..Len(columns) :
              \E c \in DOMAIN schema :
                  /\ columns[i] = Quoted(c)
                  /\ c \in DOMAIN records
                  /\ values[i] = records[c]
        /\ \A i, j \in 1..Len(columns) : columns[i] = columns[j] => i = j

C4_Witness ==
    /\ RowInserted
    /\ Len(columns) = 2
    /\ values[1] # values[2]

\* C5: a statement for a table with an identity column is one SET
\* IDENTITY_INSERT <table> ON, the INSERT, one SET IDENTITY_INSERT <table>
\* OFF, in that order and for the same table; a statement for a table
\* without identity column holds no IDENTITY_INSERT toggle.
C5_IdentityToggles ==
    StatementBuilt =>
        /\ Count(query, "INSERT INTO " \o tableName \o " (") = 1
        /\ IF isTableIdentity
           THEN /\ Count(query, "IDENTITY_INSERT") = 2
                /\ HasPrefix(query, "SET IDENTITY_INSERT " \o tableName
                                        \o " ON;INSERT INTO " \o tableName \o " (")
                /\ HasSuffix(query, ");SET IDENTITY_INSERT " \o tableName \o " OFF;")
           ELSE /\ Count(query, "IDENTITY_INSERT") = 0
                /\ HasPrefix(query, "INSERT INTO " \o tableName \o " (")
                /\ HasSuffix(query, ");")

C5_Witness == RowInserted /\ isTableIdentity /\ Len(columns) = 2

\* The name of the one directory entry has been resolved.
Resolved(fn) == files = <<fn>> /\ pc # "file"

\* C6 as stated: 001_customer_orders.json resolves to table customerorders
\* and format JSON.
C6_UnderscoreNameJoined ==
    Resolved("001_customer_orders.json") => tableName = "customerorders" /\ ext = Json

\* C6 as amended: 001_customer_orders.json resolves to table customer_orders
\* and format JSON, the name being cut at its first underscore only; it is the
\* dot-segments before the last that are joined without separator, so
\* 001_customer.orders.json resolves to customerorders.
C6_NameCutAtFirstUnderscore ==
    /\ Resolved("001_customer_orders.json") =>
          pc = "schema" /\ tableName = "customer_orders" /\ ext = Json
    /\ Resolved("001_customer.orders.json") =>
          pc = "schema" /\ tableName = "customerorders" /\ ext = Json

C6_Witness == Resolved("001_customer_orders.json") /\ tableName = "customer_orders"

\* C7, the exit code of each failure category: 1 connect, 2 table metadata,
\* 3 INSERT, 4 unparsable JSON or CSV content, 5 directory read, 6 file read,
\* 7 file open.
C7_CategoryExitCode ==
    /\ failure = "connect" => exitCode = 1
    /\ failure = "tableinfo" => exitCode = 2
    /\ failure = "insert" => exitCode = 3
    /\ failure = "parse" => exitCode = 4
    /\ failure = "readdir" => exitCode = 5
    /\ failure = "readfile" => exitCode = 6
    /\ failure = "openfile" => exitCode = 7

\* C8: a computed or timestamp-typed column never causes the required-field
\* failure, whatever its nullability, default and presence in the record.
C8_GeneratedNeverFatal ==
    \A c \in Cols : IsGenerated(c) => ~FatalFor(c)

\* The row projected last gave an empty column list without a validation failure.
EmptyProjection == RowProjected /\ Len(columns) = 0 /\ fatalMsg = ""

\* C9: an empty projection executes no INSERT for the row and ends the run
\* there: nothing of a later row or a later file is read, projected or
\* inserted, and "Upload done" is not reported.
C9_EmptyProjectionStopsRun ==
    /\ [](EmptyProjection =>
            /\ pc = "exit" /\ exitCode # -1
            /\ ExecOfRow(fileIdx, row) = {}
            /\ rowIdx = row
            /\ Len(rowsRead) = fileIdx
            /\ \A i \in 1..Len(execLog) :
                  execLog[i].file < fileIdx
                    \/ (execLog[i].file = fileIdx /\ execLog[i].row < row)
            /\ "Upload done" \notin printed)
    /\ [][EmptyProjection => UNCHANGED vars]_vars

C9_Witness ==
    /\ EmptyProjection
    /\ row = 1 /\ Len(allRecords) > 1
    /\ fileIdx < Len(files)
    /\ "No data to insert." \in printed

\* The rows read so far, in directory order and file order.
RECURSIVE RowsFrom(_)
RowsFrom(f) ==
    IF f > Len(rowsRead) THEN <<>>
    ELSE [r \in 1..rowsRead[f] |-> <<f, r>>] \o RowsFrom(f + 1)

AllRows == RowsFrom(1)

\* C10: the INSERTs executed so far are one per row of a prefix of the rows
\* in directory and file order; a file is read whole before its first INSERT,
\* so a file that fails to parse has none; after a validation failure or a
\* failed INSERT no INSERT is executed, and what was executed stays.
C10_InsertsArePrefixOfRows ==
    /\ [](/\ Len(execLog) <= Len(AllRows)
          /\ \A i \in 1..Len(execLog) :
                /\ <<execLog[i].file, execLog[i].row>> = AllRows[i]
                /\ ~execLog[i].ok => i = Len(execLog) /\ failure = "insert"
          /\ pc = "file" => Len(execLog) = Len(AllRows)
          /\ pc \in {"schema", "identity", "computed", "read"} =>
                Len(rowsRead) = fileIdx - 1 /\ Len(execLog) = Len(AllRows)
          /\ pc = "rows" =>
                /\ Len(rowsRead) = fileIdx
                /\ Len(execLog) = Len(AllRows) - (Len(allRecords) - rowIdx + 1)
          /\ failure = "parse" => \A i \in 1..Len(execLog) : execLog[i].file < fileIdx
          /\ failure = "validation" => ExecOfRow(fileIdx, row) = {}
          /\ failure \in {"validation", "insert"} => pc = "exit" /\ exitCode # -1)
    /\ [][/\ Len(execLog') >= Len(execLog)
          /\ SubSeq(execLog', 1, Len(execLog)) = execLog
          /\ failure \in {"validation", "insert"} => execLog' = execLog]_vars

C10_Witness ==
    /\ failure = "insert"
    /\ fileIdx = 2 /\ row = 2
    /\ Len(execLog) = 4
    /\ execLog[1].ok /\ execLog[2].ok /\ execLog[3].ok

====
